---- MODULE Spec2Model ----
(***************************************************************************)
(* The IPC boundary of reactdesk-ts: the preload bridge (main/preload.ts), *)
(* the Host handlers of the main process (main/index.ts), the handler     *)
(* registration module (main/ipc/handlers.ts) and the notification        *)
(* subscription of the bridge.                                             *)
(*                                                                         *)
(* Strings are kept run-length encoded: a string is a sequence of runs     *)
(* [c, n] (character c repeated n >= 1 times) in which adjacent runs have  *)
(* different characters.  Two strings are equal exactly when their         *)
(* encodings are equal, and lengths of thousands of characters stay small. *)
(* Numbers are kept in halves: the field h of a number is twice its value, *)
(* so that 1.5 is h = 3 and the integers are the even h.                   *)
(***************************************************************************)
EXTENDS Integers, Sequences, FiniteSets, TLC

VARIABLES
    calls,          \* every call made so far, by request id (its index)
    wire,           \* ids of the requests in flight from renderer to Host, FIFO
    started,        \* ids of the requests whose Host handler has begun, in order
    responses,      \* the results delivered to the renderer, in delivery order
    hostLog,        \* what the Host wrote with console.log / console.error
    disk,           \* the state of the file named DiskPath
    invokeHandlers, \* ipcMain's channel -> handler map
    regLog,         \* the register / unregister calls made so far
    lastDispatch,   \* the last dispatch made after the last registry change
    listeners,      \* ipcRenderer's listener array of the 'notification' channel
    subs,           \* every onNotification call made so far
    callCount,      \* per subscription: how often its callback was invoked
    emits,          \* number of messages delivered on 'notification'
    lastMsg,        \* the last message delivered on 'notification'
    lastArg,        \* per subscription: the last argument its callback got
    rendererLog,    \* number of console.warn lines written in the renderer
    appState,       \* "starting", "ready" (whenReady has resolved) or "quit"
    platform,       \* process.platform
    mainWindow,     \* the Host's mainWindow reference: a window id, 0 for null
    windows,        \* BrowserWindow.getAllWindows(), as window ids
    created,        \* number of windows created so far
    isDev,          \* the Host's isDev constant
    webEvents,      \* the will-navigate and window-open events handled so far
    version,        \* useAppVersion's version state
    homeMessage,    \* HomePage's message state
    clock,          \* the renderer's time, in seconds
    notification,   \* App's notification state: the arrival shown, 0 for ''
    timers,         \* the pending setTimeout callbacks of App
    arrivals,       \* number of notifications App's callback has received
    clears          \* every run of a timer callback: its owner and what it cleared

vars == <<calls, wire, started, responses, hostLog, disk, invokeHandlers, regLog,
          lastDispatch, listeners, subs, callCount, emits, lastMsg, lastArg,
          rendererLog, appState, platform, mainWindow, windows, created,
          isDev, webEvents, version, homeMessage, clock, notification, timers,
          arrivals, clears>>

reqVars == <<calls, wire, started, responses, hostLog, disk>>
regVars == <<invokeHandlers, regLog, lastDispatch>>
subVars == <<listeners, subs, callCount, emits, lastMsg, lastArg, rendererLog>>
winVars == <<appState, platform, mainWindow, windows, created>>
webVars == <<isDev, webEvents>>
uiVars  == <<version, homeMessage, clock, notification, timers, arrivals, clears>>

----------------------------------------------------------------------------
(* Bounds of the model *)

MaxDataCalls == 1
MaxFileCalls == 2
MaxRegOps == 4
MaxSubs == 2
MaxDetaches == 2
MaxEmits == 2

----------------------------------------------------------------------------
(* Strings, run-length encoded *)

Empty == <<>>

Rep(c, n) == IF n <= 0 THEN <<>> ELSE <<[c |-> c, n |-> n]>>

\* a + b
Cat(a, b) ==
    IF a = <<>> THEN b
    ELSE IF b = <<>> THEN a
    ELSE IF a[Len(a)].c = b[1].c
         THEN SubSeq(a, 1, Len(a) - 1)
                  \o <<[c |-> b[1].c, n |-> a[Len(a)].n + b[1].n]>>
                  \o Tail(b)
         ELSE a \o b

RECURSIVE SumRuns(_, _, _)
\* the number of characters in the runs lo..hi of s
SumRuns(s, lo, hi) ==
    IF lo > hi THEN 0
    ELSE IF lo = hi THEN s[lo].n
    ELSE LET mid == (lo + hi) \div 2
         IN SumRuns(s, lo, mid) + SumRuns(s, mid + 1, hi)

\* s.length
StrLen(s) == SumRuns(s, 1, Len(s))

RECURSIVE Repeat(_, _)
\* s.repeat(k), for an integer k >= 0: k copies of s, built by doubling
Repeat(s, k) ==
    IF k <= 0 THEN <<>>
    ELSE IF k = 1 THEN s
    ELSE LET half == Repeat(s, k \div 2)
             twice == Cat(half, half)
         IN IF k % 2 = 0 THEN twice ELSE Cat(twice, s)

\* s.includes('..')
IncludesDotDot(s) == \E i \in DOMAIN s : s[i].c = "." /\ s[i].n >= 2

\* s.includes('\0')
IncludesNul(s) == \E i \in DOMAIN s : s[i].c = "NUL"

\* path.isAbsolute(s) on a POSIX platform
IsAbsolute(s) == s # <<>> /\ s[1].c = "/"

Hello == <<[c |-> "H", n |-> 1], [c |-> "e", n |-> 1], [c |-> "l", n |-> 2],
           [c |-> "o", n |-> 1]>>

----------------------------------------------------------------------------
(* JavaScript values that cross the boundary *)

Prim(t, cls, h, s) == [t |-> t, cls |-> cls, h |-> h, s |-> s]

JSNum(h)  == Prim("number", "finite", h, <<>>)
JSNaN     == Prim("number", "nan", 0, <<>>)
JSInf     == Prim("number", "inf", 0, <<>>)
JSStr(s)  == Prim("string", "", 0, s)
JSUndef   == Prim("undefined", "", 0, <<>>)

\* the value of a 'properties' field: absent, an array of items, or a
\* non-empty string
NoProps == [kind |-> "undefined", items |-> <<>>]
PropsArray(items) == [kind |-> "array", items |-> items]
PropsString == [kind |-> "string", items |-> <<>>]

\* a payload: a primitive, the object {text, count} or the object {properties}
Val(p) == [t |-> p.t, cls |-> p.cls, h |-> p.h, s |-> p.s,
           text |-> JSUndef, count |-> JSUndef, props |-> NoProps]
Obj(text, count) == [t |-> "object", cls |-> "", h |-> 0, s |-> <<>>,
                     text |-> text, count |-> count, props |-> NoProps]
JSNull == [t |-> "null", cls |-> "", h |-> 0, s |-> <<>>,
           text |-> JSUndef, count |-> JSUndef, props |-> NoProps]
Options(props) == [t |-> "object", cls |-> "", h |-> 0, s |-> <<>>,
                   text |-> JSUndef, count |-> JSUndef, props |-> props]

\* Number.isInteger(v)
IsInteger(v) == v.t = "number" /\ v.cls = "finite" /\ v.h % 2 = 0

\* v >= n and v <= n for an integer n (false for NaN)
NumGE(v, n) == \/ v.cls = "finite" /\ v.h >= 2 * n
               \/ v.cls = "inf"
NumLE(v, n) == v.cls = "finite" /\ v.h <= 2 * n


\* v < n and v > n for an integer n (both false for NaN)
NumLT(v, n) == v.cls = "finite" /\ v.h < 2 * n
NumGT(v, n) == \/ v.cls = "finite" /\ v.h > 2 * n
               \/ v.cls = "inf"

----------------------------------------------------------------------------
(* The bridge: validators and processData (main/preload.ts) *)

BridgeMaxText  == 1000
BridgeMinCount == 0
BridgeMaxCount == 100

BridgeTextError  == "Invalid text field: must be a string with max 1000 characters"
BridgeCountError == "Invalid count field: must be a number between 0 and 100"
BridgeTypeError  == "TypeError: Cannot read properties of null"

\* isValidString without its length check
isValidString_TypeOnly(value, maxLength) == value.t = "string"

isValidString(value, maxLength) ==
    value.t = "string" /\ StrLen(value.s) <= maxLength

isValidNumber(value, min, max) ==
    /\ value.t = "number"
    /\ value.cls # "nan"
    /\ value.cls = "finite"
    /\ NumGE(value, min)
    /\ NumLE(value, max)

\* what processData throws before it sends anything ("" when it forwards)
BridgeProcessData(data) ==
    IF data.t \in {"null", "undefined"} THEN BridgeTypeError
    ELSE IF ~isValidString(data.text, BridgeMaxText) THEN BridgeTextError
    ELSE IF ~isValidNumber(data.count, BridgeMinCount, BridgeMaxCount)
         THEN BridgeCountError
    ELSE ""

----------------------------------------------------------------------------
(* The Host: the 'process-data' handler (main/index.ts) *)

HostMaxText  == 1000
HostMinCount == 0
HostMaxCount == 100

HostFormatError == "Invalid data format"
HostTextError   == "Invalid text field"
HostCountError  == "Invalid count field"

\* what the renderer's promise settles with: a rejection (err, detail) or a
\* value, of which the model keeps its string (processed), a number (size)
\* and its timestamp field (undefined where the value has none)
Failure(id, msg, detail) ==
    [id |-> id, ok |-> FALSE, err |-> msg, detail |-> detail,
     processed |-> <<>>, size |-> 0, stamp |-> JSUndef]
Success(id, processed, size) ==
    [id |-> id, ok |-> TRUE, err |-> "", detail |-> <<>>,
     processed |-> processed, size |-> size, stamp |-> JSUndef]

HostCountInvalid(count) ==
    \/ count.t # "number"
    \/ NumLT(count, HostMinCount)
    \/ NumGT(count, HostMaxCount)
    \/ ~IsInteger(count)

\* a handler that returns the text once, whatever the count
HandleProcessData_NoRepeat(id, data) ==
    IF data.t # "object" THEN Failure(id, HostFormatError, <<>>)
    ELSE IF data.text.t # "string" \/ StrLen(data.text.s) > HostMaxText
         THEN Failure(id, HostTextError, <<>>)
    ELSE IF HostCountInvalid(data.count)
         THEN Failure(id, HostCountError, <<>>)
    ELSE Success(id, data.text.s, 0)

\* the result of the 'process-data' handler for request id
HandleProcessData(id, data) ==
    IF data.t # "object" THEN Failure(id, HostFormatError, <<>>)
    ELSE IF data.text.t # "string" \/ StrLen(data.text.s) > HostMaxText
         THEN Failure(id, HostTextError, <<>>)
    ELSE IF HostCountInvalid(data.count)
         THEN Failure(id, HostCountError, <<>>)
    ELSE Success(id, Repeat(data.text.s, data.count.h \div 2), 0)

\* the values Date.now() takes, in milliseconds after some instant
ClockSamples == {1, 2}

\* timestamp: Date.now() in the value that 'process-data' returns
Timestamp(resp, now) ==
    IF resp.ok THEN [resp EXCEPT !.stamp = JSNum(2 * now)] ELSE resp

----------------------------------------------------------------------------
(* The bridge: readFile (main/preload.ts) *)

BridgePathLimit == 4096

BridgePathError      == "Invalid file path"
BridgeTraversalError == "Path traversal detected"

isValidPath(value) ==
    /\ value.t = "string"
    /\ StrLen(value.s) > 0
    /\ StrLen(value.s) < BridgePathLimit
    /\ ~IncludesNul(value.s)

\* readFile without its '..' check
BridgeReadFile_NoTraversalCheck(filePath) ==
    IF ~isValidPath(filePath) THEN BridgePathError ELSE ""

\* what readFile throws before it sends anything ("" when it forwards)
BridgeReadFile(filePath) ==
    IF ~isValidPath(filePath) THEN BridgePathError
    ELSE IF IncludesDotDot(filePath.s) THEN BridgeTraversalError
    ELSE ""

----------------------------------------------------------------------------
(* The file system under the Host *)

MAX_FILE_SIZE == 10 * 1024 * 1024

Slash == Rep("/", 1)
DiskPath == Cat(Slash, Rep("a", 1))

Absent   == [kind |-> "absent", size |-> 0, readable |-> FALSE]
NoAccess == [kind |-> "noaccess", size |-> 0, readable |-> FALSE]
Dir      == [kind |-> "dir", size |-> 4096, readable |-> TRUE]
File(size, readable) == [kind |-> "file", size |-> size, readable |-> readable]

FileStates ==
    {Absent, NoAccess, Dir, File(MAX_FILE_SIZE, TRUE), File(MAX_FILE_SIZE + 1, TRUE)}

\* what is at path p: the root directory, the file DiskPath, or nothing
Lookup(p) ==
    IF p = DiskPath THEN disk
    ELSE IF p = Slash THEN Dir
    ELSE Absent

ENOENT == "ENOENT: no such file or directory"
EACCES == "EACCES: permission denied"
EISDIR == "EISDIR: illegal operation on a directory"

\* the error fs.promises.stat(p) rejects with ("" when it resolves)
StatError(p) ==
    CASE Lookup(p).kind = "absent" -> ENOENT
      [] Lookup(p).kind = "noaccess" -> EACCES
      [] OTHER -> ""

\* the error fs.promises.readFile(p, 'utf-8') rejects with ("" when it resolves)
ReadError(p) ==
    CASE Lookup(p).kind = "absent" -> ENOENT
      [] Lookup(p).kind = "noaccess" -> EACCES
      [] Lookup(p).kind = "dir" -> EISDIR
      [] ~Lookup(p).readable -> EACCES
      [] OTHER -> ""

----------------------------------------------------------------------------
(* The Host: the 'read-file' handler (main/index.ts) *)

HostPathError    == "Invalid file path"
HostNotFileError == "Path is not a file"
HostTooLargeError == "File too large"
HostTypeError    == "TypeError: filePath.includes is not a function"

\* the handler's entry check without path.isAbsolute
ReadFileEntry_NoAbsoluteCheck(filePath) ==
    IF filePath.t # "string" THEN HostTypeError
    ELSE IF IncludesDotDot(filePath.s) THEN HostPathError
    ELSE ""

\* what the handler throws before its first await ("" when it goes on to stat)
ReadFileEntry(filePath) ==
    IF filePath.t # "string" THEN HostTypeError
    ELSE IF IncludesDotDot(filePath.s) \/ ~IsAbsolute(filePath.s) THEN HostPathError
    ELSE ""

\* what the handler throws after stat has resolved ("" when it goes on to read)
AfterStat(stats) ==
    IF stats.kind # "file" THEN HostNotFileError
    ELSE IF stats.size > MAX_FILE_SIZE THEN HostTooLargeError
    ELSE ""

\* the catch block: console.error('Error reading file:', error); throw error
CatchAndRethrow(id, msg, detail) ==
    /\ hostLog' = hostLog \cup {[msg |-> msg, detail |-> detail]}
    /\ calls' = [calls EXCEPT ![id].pc = "done"]
    /\ responses' = Append(responses, Failure(id, msg, detail))

----------------------------------------------------------------------------
(* ipcMain's handler map (Electron): channel -> bound handler *)

MainChannels == {"ping", "get-app-version", "show-open-dialog", "read-file",
                 "process-data"}
RegisteredChannels == {"app:ping", "app:getVersion", "data:process"}
RemovedChannels == {"app:ping", "app:getVersion", "data:process"}
Channels == MainChannels \cup RegisteredChannels \cup {"unknown", "notification"}

NoHandler == [owner |-> "none", gen |-> 0]
MainHandler == [owner |-> "main", gen |-> 0]

NoHandlerError == "No handler registered"

\* bindings under the names of the shared table: 'app:getVersion' where the
\* bridge sends 'get-app-version'
MainRegistry_TableNames ==
    [ch \in Channels |->
        IF ch \in (MainChannels \ {"get-app-version"}) \cup {"app:getVersion"}
        THEN MainHandler ELSE NoHandler]

\* the bindings after main/index.ts has been loaded
MainRegistry ==
    [ch \in Channels |-> IF ch \in MainChannels THEN MainHandler ELSE NoHandler]

\* ipcMain.handle(channel, listener): Electron refuses a second handler for a
\* channel ("Attempted to register a second handler for ...") and throws
Handle(reg, ch, h) ==
    IF reg[ch] # NoHandler
    THEN [threw |-> TRUE, reg |-> reg]
    ELSE [threw |-> FALSE, reg |-> [reg EXCEPT ![ch] = h]]

\* ipcMain.removeHandler(channel)
RemoveHandler(reg, ch) == [reg EXCEPT ![ch] = NoHandler]

\* a registration that also binds a request handler on 'notification'
RegisterAll_BindsNotification(reg, gen) ==
    LET h == [owner |-> "handlers", gen |-> gen]
        r1 == Handle(reg, "app:ping", h)
        r2 == IF r1.threw THEN r1 ELSE Handle(r1.reg, "app:getVersion", h)
        r3 == IF r2.threw THEN r2 ELSE Handle(r2.reg, "data:process", h)
        r4 == IF r3.threw THEN r3 ELSE Handle(r3.reg, "notification", h)
    IN r4

\* registerIPCHandlers(): three ipcMain.handle calls, the first throw ends it
RegisterAll(reg, gen) ==
    LET h == [owner |-> "handlers", gen |-> gen]
        r1 == Handle(reg, "app:ping", h)
        r2 == IF r1.threw THEN r1 ELSE Handle(r1.reg, "app:getVersion", h)
        r3 == IF r2.threw THEN r2 ELSE Handle(r2.reg, "data:process", h)
    IN r3

\* unregisterIPCHandlers() with the last removeHandler call left out
UnregisterAll_MissesOne(reg) ==
    RemoveHandler(RemoveHandler(reg, "app:ping"), "app:getVersion")

\* unregisterIPCHandlers(): three ipcMain.removeHandler calls
UnregisterAll(reg) ==
    RemoveHandler(RemoveHandler(RemoveHandler(reg, "app:ping"), "app:getVersion"),
                  "data:process")

NoDispatch == [chan |-> "", result |-> "", gen |-> 0]

RegOps(op) == Cardinality({k \in DOMAIN regLog : regLog[k].op = op})

\* what the handler bound to ch returns (handlers.ts and the 'ping' of index.ts)
HandlerResult(ch) ==
    CASE ch \in {"app:ping", "ping"} -> "pong"
      [] ch = "app:getVersion" -> "1.0.0"
      [] ch = "data:process" -> "success"
      [] OTHER -> "other"

\* registerIPCHandlers()
RegisterIPCHandlers ==
    /\ Len(regLog) < MaxRegOps
    /\ LET r == RegisterAll(invokeHandlers, RegOps("register") + 1)
       IN /\ invokeHandlers' = r.reg
          /\ regLog' = Append(regLog, [op |-> "register", threw |-> r.threw])
    /\ lastDispatch' = NoDispatch

\* unregisterIPCHandlers()
UnregisterIPCHandlers ==
    /\ Len(regLog) < MaxRegOps
    /\ invokeHandlers' = UnregisterAll(invokeHandlers)
    /\ regLog' = Append(regLog, [op |-> "unregister", threw |-> FALSE])
    /\ lastDispatch' = NoDispatch

\* ipcMain dispatches an invoke on channel ch
DispatchTo(ch) ==
    /\ lastDispatch' =
          [chan |-> ch, gen |-> invokeHandlers[ch].gen,
           result |-> IF invokeHandlers[ch] = NoHandler THEN NoHandlerError
                      ELSE HandlerResult(ch)]
    /\ UNCHANGED <<invokeHandlers, regLog>>

----------------------------------------------------------------------------
(* The bridge: onNotification (main/preload.ts) *)

Callbacks == {"cbA", "cbB"}

Messages == {JSStr(Rep("m", 2)), JSNum(2), JSUndef}

\* the safeCallback closure created by the i-th onNotification call
SafeCallback(i) == [id |-> i, cb |-> subs[i].cb]

IndicesOf(list, l) == {k \in DOMAIN list : list[k] = l}

Max(S) == CHOOSE x \in S : \A y \in S : y <= x

\* a removal that drops every listener wrapping the same callback
RemoveListener_ByCallback(list, l) == SelectSeq(list, LAMBDA x : x.cb # l.cb)

\* a removal that is handed the caller's callback instead of the safeCallback
\* closure: the callback itself was never installed, so nothing is removed
RemoveListener_Unwrapped(list, l) == list

\* a removal by list.splice(list.indexOf(l), 1), which drops the last
\* listener when l is not in the list
RemoveListener_Splice(list, l) ==
    IF list = <<>> THEN list
    ELSE IF IndicesOf(list, l) = {} THEN SubSeq(list, 1, Len(list) - 1)
    ELSE SubSeq(list, 1, Max(IndicesOf(list, l)) - 1)
            \o SubSeq(list, Max(IndicesOf(list, l)) + 1, Len(list))

\* ipcRenderer.removeListener('notification', l): the EventEmitter drops the
\* most recently added instance of l, and nothing when l is not installed
RemoveListener(list, l) ==
    IF IndicesOf(list, l) = {} THEN list
    ELSE SubSeq(list, 1, Max(IndicesOf(list, l)) - 1)
            \o SubSeq(list, Max(IndicesOf(list, l)) + 1, Len(list))

\* how many installed listeners belong to subscription i
Installed(i) == Cardinality({k \in DOMAIN listeners : listeners[k].id = i})

\* window.electronAPI.onNotification(cb)
OnNotification(cb) ==
    /\ Len(subs) < MaxSubs
    /\ subs' = Append(subs, [cb |-> cb, detaches |-> 0])
    /\ listeners' = Append(listeners, [id |-> Len(subs) + 1, cb |-> cb])
    /\ callCount' = Append(callCount, 0)
    /\ lastArg' = Append(lastArg, JSUndef)
    /\ UNCHANGED <<emits, lastMsg, rendererLog>>

\* a call of the function that the i-th onNotification call returned
Detach(i) ==
    /\ i \in DOMAIN subs
    /\ subs[i].detaches < MaxDetaches
    /\ listeners' = RemoveListener(listeners, SafeCallback(i))
    /\ subs' = [subs EXCEPT ![i].detaches = @ + 1]
    /\ UNCHANGED <<callCount, emits, lastMsg, lastArg, rendererLog>>

\* a safeCallback that hands every message to the callback
IsStringMessage_Any(message) == TRUE

\* safeCallback: typeof message === 'string'
IsStringMessage(message) == message.t = "string"

\* a message arrives on 'notification': every installed safeCallback runs
Notify(message) ==
    /\ emits < MaxEmits
    /\ emits' = emits + 1
    /\ lastMsg' = message
    /\ IF IsStringMessage(message)
       THEN /\ callCount' = [i \in DOMAIN callCount |-> callCount[i] + Installed(i)]
            /\ lastArg' = [i \in DOMAIN lastArg |->
                              IF Installed(i) > 0 THEN message ELSE lastArg[i]]
            /\ UNCHANGED rendererLog
       ELSE /\ rendererLog' = rendererLog + Len(listeners)
            /\ UNCHANGED <<callCount, lastArg>>
    /\ UNCHANGED <<listeners, subs>>

----------------------------------------------------------------------------
(* The Host: 'ping', 'get-app-version' and 'show-open-dialog' (main/index.ts) *)

Pong == Cat(Rep("p", 1), Cat(Rep("o", 1), Cat(Rep("n", 1), Rep("g", 1))))

PingLog == "Received ping from renderer"

\* a 'ping' handler that echoes the channel name
HandlePing_Echo(id) == Success(id, Cat(Rep("p", 1), Cat(Rep("i", 1), Cat(Rep("n", 1), Rep("g", 1)))), 0)

\* the result of the 'ping' handler for request id
HandlePing(id) == Success(id, Pong, 0)

\* app.getVersion(): the version of the package, 1.0.0 as in handlers.ts
AppVersion ==
    Cat(Rep("1", 1), Cat(Rep(".", 1), Cat(Rep("0", 1), Cat(Rep(".", 1), Rep("0", 1)))))

\* the result of the 'get-app-version' handler: of the record it returns the
\* model keeps the version field
HandleGetAppVersion(id) == Success(id, AppVersion, 0)

ValidProperties == {"openFile", "openDirectory", "multiSelections"}

NoWindowError == "No main window available"

\* a handler that hands the renderer's properties to the dialog as they are
HostSafeProperties_PassThrough(options) ==
    IF options.props.kind = "array" THEN options.props.items ELSE <<"openFile">>

\* a handler that opens the dialog without looking at mainWindow
NoMainWindow_Unchecked(w) == FALSE

\* !mainWindow
NoMainWindow(w) == w = 0

\* safeOptions.properties of the 'show-open-dialog' handler
HostSafeProperties(options) ==
    IF options.props.kind = "array"
    THEN SelectSeq(options.props.items, LAMBDA p : p \in ValidProperties)
    ELSE <<"openFile">>

----------------------------------------------------------------------------
(* The bridge: the published object, ping, getAppVersion, showOpenDialog *)

\* a bridge that also publishes a generic invoke(channel, ...args)
ExposedMethods_WithInvoke ==
    {"getAppVersion", "ping", "processData", "showOpenDialog", "readFile",
     "onNotification", "invoke"}

\* the keys of the object given to contextBridge.exposeInMainWorld
ExposedMethods ==
    {"getAppVersion", "ping", "processData", "showOpenDialog", "readFile",
     "onNotification"}

\* the channel of ipcRenderer.on / removeListener in onNotification
NotificationChannel == "notification"

BridgeFilterError == "options.properties.filter is not a function"

\* what showOpenDialog throws before it sends anything ("" when it forwards):
\* a truthy properties value without a filter method makes the call throw
BridgeShowOpenDialog(options) ==
    IF options.props.kind = "string" THEN BridgeFilterError ELSE ""

\* the safeOptions that showOpenDialog forwards
BridgeSafeOptions(options) ==
    IF options.props.kind = "array"
    THEN Options(PropsArray(SelectSeq(options.props.items,
                                      LAMBDA p : p \in ValidProperties)))
    ELSE Options(NoProps)

UseIPCError == "IPC not available"

----------------------------------------------------------------------------
(* The Host: application and window lifecycle (main/index.ts) *)

MaxWindows == 2

Platforms == {"darwin", "linux"}

\* createWindow(): mainWindow = new BrowserWindow(...)
\* a createWindow that binds the Host's handlers anew for its window
CreateWindow_Rebinds ==
    /\ mainWindow' = created + 1
    /\ windows' = windows \cup {created + 1}
    /\ created' = created + 1
    /\ invokeHandlers' =
          [ch \in Channels |-> IF ch \in MainChannels
                               THEN [owner |-> "main", gen |-> created]
                               ELSE invokeHandlers[ch]]

CreateWindow ==
    /\ mainWindow' = created + 1
    /\ windows' = windows \cup {created + 1}
    /\ created' = created + 1
    /\ UNCHANGED invokeHandlers

\* app.whenReady() resolves: createWindow() and the 'activate' subscription
AppReady ==
    /\ appState = "starting"
    /\ appState' = "ready"
    /\ CreateWindow
    /\ UNCHANGED platform

\* window w is closed: its 'closed' handler sets mainWindow = null, and when
\* it was the last window 'window-all-closed' quits the app except on macOS
WindowClosed(w) ==
    /\ appState = "ready"
    /\ w \in windows
    /\ windows' = windows \ {w}
    /\ mainWindow' = 0
    /\ appState' = IF windows' = {} /\ platform # "darwin" THEN "quit" ELSE appState
    /\ UNCHANGED <<platform, created, invokeHandlers>>

\* 'activate' (the macOS dock icon is clicked): a window is created when
\* there is none
\* an 'activate' handler that creates a window whenever it runs
NoWindowsOpen_Unchecked(wins) == TRUE

\* BrowserWindow.getAllWindows().length === 0
NoWindowsOpen(wins) == wins = {}

Activate ==
    /\ appState = "ready"
    /\ platform = "darwin"
    /\ NoWindowsOpen(windows)
    /\ created < MaxWindows
    /\ CreateWindow
    /\ UNCHANGED <<appState, platform>>

----------------------------------------------------------------------------
(* The Host: process-wide fault handlers, navigation and window-open guards *)

FaultKinds == {"uncaughtException", "unhandledRejection"}

\* console.error('Uncaught exception:', ...) / ('Unhandled rejection:', ...)
FaultLog(kind) ==
    IF kind = "uncaughtException" THEN "Uncaught exception:" ELSE "Unhandled rejection:"

\* a process without the two process.on handlers: the fault ends it
AfterFault_Exit(state) == "quit"

\* the process.on handlers only log: the process goes on as it was
AfterFault(state) == state

\* an exception or a promise rejection reaches the top of the Host process
HostFault(kind) ==
    /\ appState # "quit"
    /\ hostLog' = hostLog \cup {[msg |-> FaultLog(kind), detail |-> <<>>]}
    /\ appState' = AfterFault(appState)
    /\ UNCHANGED <<calls, wire, started, responses, disk, platform, mainWindow,
                   windows, created>>

\* a URL as the browser hands it over: scheme, userinfo, host and port (0 when
\* the URL has none or the scheme's default)
Url(scheme, user, host, port) ==
    [scheme |-> scheme, user |-> user, host |-> host, port |-> port]

SpecialSchemes == {"http", "https", "ws", "wss", "ftp", "file"}

\* new URL(u).origin: scheme, host and port of an http(s), ws(s) or ftp URL,
\* and the opaque "null" origin of every other URL
Origin(u) ==
    IF u.scheme \in SpecialSchemes \ {"file"}
    THEN <<u.scheme, u.host, u.port>>
    ELSE <<"null", "", 0>>

\* VITE_DEV_SERVER_URL, which is its own origin
DevServerOrigin == <<"http", "localhost", 5173>>

\* u.startsWith(scheme + '://'): the text of a URL begins with its scheme and
\* ':', followed by '//' exactly for the special schemes
StartsWithScheme(u, scheme) == u.scheme = scheme /\ scheme \in SpecialSchemes

UrlSamples ==
    {Url("http", "", "localhost", 5173),
     Url("http", "localhost:5173", "evil.example", 0),
     Url("http", "", "localhost.evil.example", 5173),
     Url("https", "", "localhost", 5173),
     Url("https", "", "example.com", 0),
     Url("http", "", "example.com", 0),
     Url("file", "", "", 0),
     Url("javascript", "", "", 0)}

\* a window without its own will-navigate handler
WindowHandlerPrevents_Absent(dev, u) == FALSE

\* mainWindow.webContents.on('will-navigate'): does it call preventDefault
WindowHandlerPrevents(dev, u) == ~(dev /\ Origin(u) = DevServerOrigin)

\* the will-navigate handler of 'web-contents-created': does it call
\* preventDefault
AppHandlerPrevents(dev, u) ==
    IF dev /\ Origin(u) # DevServerOrigin THEN TRUE
    ELSE IF ~dev /\ ~StartsWithScheme(u, "file") THEN TRUE
    ELSE FALSE

BlockedLog == "Blocked navigation to:"

MaxWebEvents == 2

\* the main window is about to navigate to u: both will-navigate handlers run
WillNavigate(u) ==
    /\ appState = "ready"
    /\ windows # {}
    /\ Len(webEvents) < MaxWebEvents
    /\ webEvents' = Append(webEvents,
          [kind |-> "navigate", url |-> u,
           prevented |-> WindowHandlerPrevents(isDev, u) \/ AppHandlerPrevents(isDev, u),
           external |-> FALSE])
    /\ hostLog' = IF WindowHandlerPrevents(isDev, u)
                  THEN hostLog \cup {[msg |-> BlockedLog, detail |-> <<>>]}
                  ELSE hostLog
    /\ UNCHANGED isDev

\* a handler that also hands plain http URLs to the system browser
OpensExternally_AnyHttp(u) == StartsWithScheme(u, "https") \/ StartsWithScheme(u, "http")

\* setWindowOpenHandler: is shell.openExternal(url) called
OpensExternally(u) == StartsWithScheme(u, "https")

\* setWindowOpenHandler: the action it returns
WindowOpenAction(u) == "deny"

\* the renderer of the main window asks for a new window on u
WindowOpen(u) ==
    /\ appState = "ready"
    /\ windows # {}
    /\ Len(webEvents) < MaxWebEvents
    /\ webEvents' = Append(webEvents,
          [kind |-> "open", url |-> u,
           prevented |-> WindowOpenAction(u) = "deny",
           external |-> OpensExternally(u)])
    /\ UNCHANGED <<isDev, hostLog>>

----------------------------------------------------------------------------
(* Requests: renderer -> bridge -> wire -> Host handler -> renderer *)

\* no native dialog was opened for the request
NoNative == [win |-> 0, properties |-> <<>>]

Call(chan, arg, via, berr) ==
    [chan |-> chan, arg |-> arg, via |-> via, berr |-> berr,
     pc |-> IF berr = "" THEN "wire" ELSE "rejected", fsOps |-> 0,
     native |-> NoNative]

NCalls(chan) == Cardinality({i \in DOMAIN calls : calls[i].chan = chan})

\* a reply path that delivers every result twice
Finish_Twice(id, resp) ==
    /\ calls' = [calls EXCEPT ![id].pc = "done"]
    /\ responses' = Append(Append(responses, resp), resp)

Finish(id, resp) ==
    /\ calls' = [calls EXCEPT ![id].pc = "done"]
    /\ responses' = Append(responses, resp)

TextSamples ==
    {JSStr(Empty), JSStr(Hello), JSStr(Rep("a", BridgeMaxText)),
     JSStr(Rep("a", BridgeMaxText + 1)), JSStr(Rep("a", 10000)),
     JSNum(10), JSUndef}

CountHalves == {-2, -1, 0, 1, 3, 6, 199, 200, 201, 202, 2000}

CountSamples ==
    {JSNum(h) : h \in CountHalves} \cup {JSNaN, JSInf, JSStr(Rep("3", 1)), JSUndef}

DataSamples ==
    {Obj(t, c) : t \in TextSamples, c \in CountSamples}
        \cup {JSNull, Val(JSStr(Hello))}

\* window.electronAPI.processData(data)
CallProcessData(data) ==
    /\ NCalls("process-data") < MaxDataCalls
    /\ LET id == Len(calls) + 1
           berr == BridgeProcessData(data)
       IN /\ calls' = Append(calls, Call("process-data", data, "bridge", berr))
          /\ wire' = IF berr = "" THEN Append(wire, id) ELSE wire
    /\ UNCHANGED <<started, responses, hostLog, disk>>

\* a 'process-data' request that reaches the Host without the bridge's checks
DirectProcessData(data) ==
    /\ NCalls("process-data") < MaxDataCalls
    /\ calls' = Append(calls, Call("process-data", data, "direct", ""))
    /\ wire' = Append(wire, Len(calls) + 1)
    /\ UNCHANGED <<started, responses, hostLog, disk>>

\* a pipe that hands over the newest request first
NextOnWire_Newest(w) == Len(w)

\* the position in the wire of the request ipcMain dispatches next: the
\* renderer-to-Host pipe is first in, first out
NextOnWire(w) == 1

RemoveAt(w, k) == SubSeq(w, 1, k - 1) \o SubSeq(w, k + 1, Len(w))

\* ipcMain dispatches the next request in flight to the handler of its channel;
\* the handler runs up to its first await, or to its end
HostDispatch ==
    /\ wire # <<>>
    /\ LET k == NextOnWire(wire)
           id == wire[k]
           c == calls[id]
       IN /\ wire' = RemoveAt(wire, k)
          /\ IF invokeHandlers[c.chan] = NoHandler
             THEN /\ Finish(id, Failure(id, NoHandlerError, <<>>))
                  /\ UNCHANGED <<started, hostLog>>
             ELSE /\ started' = Append(started, id)
                  /\ CASE c.chan = "process-data" ->
                            /\ \E now \in ClockSamples :
                                  Finish(id, Timestamp(HandleProcessData(id, c.arg), now))
                            /\ UNCHANGED hostLog
                       [] c.chan = "ping" ->
                            /\ hostLog' = hostLog \cup {[msg |-> PingLog, detail |-> <<>>]}
                            /\ Finish(id, HandlePing(id))
                       [] c.chan = "get-app-version" ->
                            /\ Finish(id, HandleGetAppVersion(id))
                            /\ UNCHANGED hostLog
                       [] c.chan = "show-open-dialog" ->
                            /\ IF NoMainWindow(mainWindow)
                               THEN Finish(id, Failure(id, NoWindowError, <<>>))
                               ELSE /\ calls' = [calls EXCEPT
                                          ![id].pc = "dialog",
                                          ![id].native =
                                              [win |-> mainWindow,
                                               properties |-> HostSafeProperties(c.arg)]]
                                    /\ UNCHANGED responses
                            /\ UNCHANGED hostLog
                       [] c.chan = "read-file" ->
                            /\ IF ReadFileEntry(c.arg) = ""
                               THEN /\ calls' = [calls EXCEPT ![id].pc = "stat",
                                                              ![id].fsOps = 1]
                                    /\ UNCHANGED responses
                               ELSE Finish(id, Failure(id, ReadFileEntry(c.arg), <<>>))
                            /\ UNCHANGED hostLog
    /\ UNCHANGED disk

PathSamples ==
    {Empty, Slash, DiskPath, Rep("a", 1),
     Cat(DiskPath, Cat(Slash, Cat(Rep(".", 2), DiskPath))),
     Cat(Rep(".", 2), DiskPath),
     Cat(DiskPath, Rep("NUL", 1)),
     Cat(Slash, Rep("b", BridgePathLimit - 2)),
     Cat(Slash, Rep("b", BridgePathLimit - 1))}

FileArgs == {Val(JSStr(p)) : p \in PathSamples} \cup {Val(JSNum(2))}

\* window.electronAPI.readFile(filePath)
CallReadFile(filePath) ==
    /\ NCalls("read-file") < MaxFileCalls
    /\ LET id == Len(calls) + 1
           berr == BridgeReadFile(filePath)
       IN /\ calls' = Append(calls, Call("read-file", filePath, "bridge", berr))
          /\ wire' = IF berr = "" THEN Append(wire, id) ELSE wire
    /\ UNCHANGED <<started, responses, hostLog, disk>>

\* a 'read-file' request that reaches the Host without the bridge's checks
DirectReadFile(filePath) ==
    /\ NCalls("read-file") < MaxFileCalls
    /\ calls' = Append(calls, Call("read-file", filePath, "direct", ""))
    /\ wire' = Append(wire, Len(calls) + 1)
    /\ UNCHANGED <<started, responses, hostLog, disk>>

\* 'read-file': await fs.promises.stat(filePath) settles
StatDone(id) ==
    /\ id \in DOMAIN calls
    /\ calls[id].pc = "stat"
    /\ LET p == calls[id].arg.s
           stats == Lookup(p)
       IN IF StatError(p) # ""
          THEN CatchAndRethrow(id, StatError(p), p)
          ELSE IF AfterStat(stats) # ""
               THEN CatchAndRethrow(id, AfterStat(stats), <<>>)
               ELSE /\ calls' = [calls EXCEPT ![id].pc = "read", ![id].fsOps = 2]
                    /\ UNCHANGED <<responses, hostLog>>
    /\ UNCHANGED <<wire, started, disk>>

\* 'read-file': await fs.promises.readFile(filePath, 'utf-8') settles
ReadDone(id) ==
    /\ id \in DOMAIN calls
    /\ calls[id].pc = "read"
    /\ LET p == calls[id].arg.s
       IN IF ReadError(p) # ""
          THEN CatchAndRethrow(id, ReadError(p), p)
          ELSE /\ Finish(id, Success(id, <<>>, Lookup(p).size))
               /\ UNCHANGED hostLog
    /\ UNCHANGED <<wire, started, disk>>

\* another process creates, removes, replaces or rewrites the file DiskPath
FsChange(f) ==
    /\ f # disk
    /\ disk' = f
    /\ UNCHANGED <<calls, wire, started, responses, hostLog>>

MaxAppCalls == 2

\* window.electronAPI.ping()
CallPing ==
    /\ Len(calls) < MaxAppCalls
    /\ calls' = Append(calls, Call("ping", Val(JSUndef), "bridge", ""))
    /\ wire' = Append(wire, Len(calls) + 1)
    /\ UNCHANGED <<started, responses, hostLog, disk>>

\* window.electronAPI.getAppVersion()
CallGetAppVersion ==
    /\ Len(calls) < MaxAppCalls
    /\ calls' = Append(calls, Call("get-app-version", Val(JSUndef), "bridge", ""))
    /\ wire' = Append(wire, Len(calls) + 1)
    /\ UNCHANGED <<started, responses, hostLog, disk>>

OptionSamples ==
    {Options(PropsString),
     Options(PropsArray(<<"openDirectory", "createDirectory">>))}

\* window.electronAPI.showOpenDialog(options)
CallShowOpenDialog(options) ==
    /\ Len(calls) < MaxAppCalls
    /\ LET id == Len(calls) + 1
           berr == BridgeShowOpenDialog(options)
       IN /\ calls' = Append(calls, Call("show-open-dialog",
                                         IF berr = "" THEN BridgeSafeOptions(options)
                                         ELSE options,
                                         "bridge", berr))
          /\ wire' = IF berr = "" THEN Append(wire, id) ELSE wire
    /\ UNCHANGED <<started, responses, hostLog, disk>>

\* a 'show-open-dialog' request that reaches the Host without the bridge
DirectShowOpenDialog(options) ==
    /\ Len(calls) < MaxAppCalls
    /\ calls' = Append(calls, Call("show-open-dialog", options, "direct", ""))
    /\ wire' = Append(wire, Len(calls) + 1)
    /\ UNCHANGED <<started, responses, hostLog, disk>>

DialogPayloads ==
    {Val(JSUndef), JSNull, Val(JSNum(2)), Options(NoProps), Options(PropsString),
     Options(PropsArray(<<>>)),
     Options(PropsArray(<<"openFile", "multiSelections">>)),
     Options(PropsArray(<<"openDirectory", "createDirectory">>)),
     Options(PropsArray(<<"showHiddenFiles", "42">>)),
     Options(PropsArray(<<"openFile", "openFile">>))}

\* what the user does with the native dialog
DialogResults == {"canceled", "chosen"}

\* 'show-open-dialog': await dialog.showOpenDialog(mainWindow, safeOptions)
\* settles with {canceled, filePaths}: size is the number of chosen paths and
\* processed the chosen path
DialogDone(id, result) ==
    /\ id \in DOMAIN calls
    /\ calls[id].pc = "dialog"
    /\ Finish(id, IF result = "chosen" THEN Success(id, DiskPath, 1)
                  ELSE Success(id, Empty, 0))
    /\ UNCHANGED <<wire, started, hostLog, disk>>

UseIPCChannels == {"app:getVersion"}

\* a hook that takes the generic method m for present
UseIPCAvailable_Assumed(m) == TRUE

\* electronAPI?.invoke, electronAPI?.on, electronAPI?.off: is m published
UseIPCAvailable(m) == m \in ExposedMethods

\* useIPC().invoke(channel): forwards to window.electronAPI.invoke when the
\* bridge publishes one, and otherwise warns and returns null
UseIPCInvoke(ch) ==
    /\ Len(calls) < MaxAppCalls
    /\ IF UseIPCAvailable("invoke")
       THEN /\ calls' = Append(calls, Call(ch, Val(JSUndef), "useIPC", ""))
            /\ wire' = Append(wire, Len(calls) + 1)
            /\ UNCHANGED rendererLog
       ELSE /\ calls' = Append(calls, Call(ch, Val(JSUndef), "useIPC", UseIPCError))
            /\ rendererLog' = rendererLog + 1
            /\ UNCHANGED wire
    /\ UNCHANGED <<started, responses, hostLog, disk>>

\* the call through useIPC made by `via`: forwarded on ch when the bridge
\* publishes invoke, and otherwise warned about and resolved to null at once
HookInvoke(ch, via) ==
    /\ Len(calls) < MaxAppCalls
    /\ IF UseIPCAvailable("invoke")
       THEN /\ calls' = Append(calls, Call(ch, Val(JSUndef), via, ""))
            /\ wire' = Append(wire, Len(calls) + 1)
            /\ UNCHANGED rendererLog
       ELSE /\ calls' = Append(calls, Call(ch, Val(JSUndef), via, UseIPCError))
            /\ rendererLog' = rendererLog + 1
            /\ UNCHANGED wire
    /\ UNCHANGED <<started, responses, hostLog, disk>>

\* if (typeof v === 'string') setVersion(v): the version state afterwards
SetVersion(v, current) == IF v.t = "string" THEN v ELSE current

\* useAppVersion's effect: invoke('app:getVersion').then(v => ...); without
\* a published invoke v is null at once, a forwarded call is still pending
UseAppVersionEffect ==
    /\ HookInvoke("app:getVersion", "useAppVersion")
    /\ version' = IF UseIPCAvailable("invoke") THEN version
                  ELSE SetVersion(JSNull, version)
    /\ UNCHANGED homeMessage

\* HomePage.handlePing: setMessage(`Response: ${await invoke('app:ping')}`)
HandlePingClick ==
    /\ HookInvoke("app:ping", "HomePage")
    /\ homeMessage' = IF UseIPCAvailable("invoke") THEN homeMessage
                      ELSE "Response: null"
    /\ UNCHANGED version

HookChannels == {"ping", "read-file", "notification"}

\* useIPC().on(channel, callback): electronAPI.on when the bridge publishes
\* it, and otherwise a warning
UseIPCOn(ch, cb) ==
    /\ Len(calls) < MaxAppCalls
    /\ calls' = Append(calls, Call(ch, Val(JSUndef), "useIPC.on",
                                   IF UseIPCAvailable("on") THEN "" ELSE UseIPCError))
    /\ IF UseIPCAvailable("on")
       THEN /\ listeners' = IF ch = NotificationChannel
                            THEN Append(listeners, [id |-> 0, cb |-> cb])
                            ELSE listeners
            /\ UNCHANGED rendererLog
       ELSE /\ rendererLog' = rendererLog + 1
            /\ UNCHANGED listeners
    /\ UNCHANGED <<wire, started, responses, hostLog, disk>>

\* useIPC().off(channel, callback)
UseIPCOff(ch, cb) ==
    /\ Len(calls) < MaxAppCalls
    /\ calls' = Append(calls, Call(ch, Val(JSUndef), "useIPC.off",
                                   IF UseIPCAvailable("off") THEN "" ELSE UseIPCError))
    /\ IF UseIPCAvailable("off")
       THEN /\ listeners' = IF ch = NotificationChannel
                            THEN SelectSeq(listeners, LAMBDA l : l.cb # cb)
                            ELSE listeners
            /\ UNCHANGED rendererLog
       ELSE /\ rendererLog' = rendererLog + 1
            /\ UNCHANGED listeners
    /\ UNCHANGED <<wire, started, responses, hostLog, disk>>

MaxArrivals == 3
MaxClock == 6

\* the delay of App's setTimeout, 3000 ms, in seconds
ClearDelay == 3

\* App's onNotification callback receives the next notification:
\* setNotification(message); setTimeout(() => setNotification(''), 3000)
NotificationArrives ==
    /\ arrivals < MaxArrivals
    /\ arrivals' = arrivals + 1
    /\ notification' = arrivals + 1
    /\ timers' = timers \cup {[owner |-> arrivals + 1, due |-> clock + ClearDelay]}
    /\ UNCHANGED <<clock, clears>>

\* the seconds that the notification on display still has until 3 seconds
\* after its arrival, which is when its own timer is due
TimeLeft(shown) ==
    IF \E u \in timers : u.owner = shown /\ u.due > clock
    THEN (CHOOSE u \in timers : u.owner = shown).due - clock
    ELSE 0

\* the timer callback t runs: setNotification('')
TimerFires(t) ==
    /\ t \in timers
    /\ t.due <= clock
    /\ timers' = timers \ {t}
    /\ notification' = 0
    /\ clears' = Append(clears, [owner |-> t.owner, cleared |-> notification,
                                 left |-> TimeLeft(notification)])
    /\ UNCHANGED <<clock, arrivals>>

\* a second passes; timers that are due run first
Tick ==
    /\ clock < MaxClock
    /\ \A t \in timers : t.due > clock
    /\ clock' = clock + 1
    /\ UNCHANGED <<notification, timers, arrivals, clears>>

AppDataSamples == {Obj(JSStr(Hello), JSNum(6))}

AppPathSamples == {Val(JSStr(DiskPath))}

AppFileStates == {Absent, File(MAX_FILE_SIZE, TRUE)}

----------------------------------------------------------------------------
(* Specifications *)

InitIPC ==
    /\ calls = <<>>
    /\ wire = <<>>
    /\ started = <<>>
    /\ responses = <<>>
    /\ hostLog = {}
    /\ disk = Absent
    /\ invokeHandlers = MainRegistry
    /\ regLog = <<>>
    /\ lastDispatch = NoDispatch
    /\ listeners = <<>>
    /\ subs = <<>>
    /\ callCount = <<>>
    /\ emits = 0
    /\ lastMsg = JSUndef
    /\ lastArg = <<>>
    /\ rendererLog = 0
    /\ webEvents = <<>>
    /\ version = JSNull
    /\ homeMessage = ""
    /\ clock = 0
    /\ notification = 0
    /\ timers = {}
    /\ arrivals = 0
    /\ clears = <<>>

\* the app is ready and its first window is open
Init ==
    /\ InitIPC
    /\ appState = "ready"
    /\ platform = "linux"
    /\ mainWindow = 1
    /\ windows = {1}
    /\ created = 1
    /\ isDev = FALSE

\* main/index.ts has been loaded, app.whenReady() is still pending
InitApp ==
    /\ InitIPC
    /\ appState = "starting"
    /\ platform \in Platforms
    /\ mainWindow = 0
    /\ windows = {}
    /\ created = 0
    /\ isDev = FALSE

NextData ==
    \/ \E d \in DataSamples : CallProcessData(d) /\ UNCHANGED <<regVars, subVars, winVars, webVars, uiVars>>
    \/ \E d \in DataSamples : DirectProcessData(d) /\ UNCHANGED <<regVars, subVars, winVars, webVars, uiVars>>
    \/ HostDispatch /\ UNCHANGED <<regVars, subVars, winVars, webVars, uiVars>>

SpecData == Init /\ [][NextData]_vars

NextFile ==
    \/ \E p \in FileArgs : CallReadFile(p) /\ UNCHANGED <<regVars, subVars, winVars, webVars, uiVars>>
    \/ \E p \in FileArgs : DirectReadFile(p) /\ UNCHANGED <<regVars, subVars, winVars, webVars, uiVars>>
    \/ HostDispatch /\ UNCHANGED <<regVars, subVars, winVars, webVars, uiVars>>
    \/ \E id \in DOMAIN calls : StatDone(id) /\ UNCHANGED <<regVars, subVars, winVars, webVars, uiVars>>
    \/ \E id \in DOMAIN calls : ReadDone(id) /\ UNCHANGED <<regVars, subVars, winVars, webVars, uiVars>>
    \/ \E f \in FileStates : FsChange(f) /\ UNCHANGED <<regVars, subVars, winVars, webVars, uiVars>>

SpecFile == Init /\ [][NextFile]_vars

NextReg ==
    \/ RegisterIPCHandlers /\ UNCHANGED <<reqVars, subVars, winVars, webVars, uiVars>>
    \/ UnregisterIPCHandlers /\ UNCHANGED <<reqVars, subVars, winVars, webVars, uiVars>>
    \/ \E ch \in RegisteredChannels \cup {"ping", "unknown"} :
            DispatchTo(ch) /\ UNCHANGED <<reqVars, subVars, winVars, webVars, uiVars>>

SpecReg == Init /\ [][NextReg]_vars

NextNotif ==
    \/ \E cb \in Callbacks : OnNotification(cb) /\ UNCHANGED <<reqVars, regVars, winVars, webVars, uiVars>>
    \/ \E i \in DOMAIN subs : Detach(i) /\ UNCHANGED <<reqVars, regVars, winVars, webVars, uiVars>>
    \/ \E m \in Messages : Notify(m) /\ UNCHANGED <<reqVars, regVars, winVars, webVars, uiVars>>

SpecNotif == Init /\ [][NextNotif]_vars

\* the renderer of an open window exists and can call the bridge
RendererAlive == appState = "ready" /\ windows # {}

\* the Host process is running its event loop
HostAlive == appState # "quit"

idleVars == <<regVars, listeners, subs, callCount, emits, lastMsg, lastArg,
              webVars, uiVars>>

AppCall ==
    /\ RendererAlive
    /\ \/ CallPing
       \/ CallGetAppVersion
       \/ \E o \in OptionSamples : CallShowOpenDialog(o)
       \/ \E d \in AppDataSamples : Len(calls) < MaxAppCalls /\ CallProcessData(d)
       \/ \E p \in AppPathSamples : Len(calls) < MaxAppCalls /\ CallReadFile(p)
    /\ UNCHANGED <<idleVars, rendererLog, winVars>>

AppUseIPC ==
    /\ RendererAlive
    /\ \E ch \in UseIPCChannels : UseIPCInvoke(ch)
    /\ UNCHANGED <<idleVars, winVars>>

AppDispatch == HostAlive /\ HostDispatch /\ UNCHANGED <<idleVars, rendererLog, winVars>>

AppStatDone(id) == HostAlive /\ StatDone(id) /\ UNCHANGED <<idleVars, rendererLog, winVars>>

AppReadDone(id) == HostAlive /\ ReadDone(id) /\ UNCHANGED <<idleVars, rendererLog, winVars>>

AppDialogDone(id) ==
    /\ HostAlive
    /\ \E r \in DialogResults : DialogDone(id, r)
    /\ UNCHANGED <<idleVars, rendererLog, winVars>>

AppFsChange ==
    /\ HostAlive
    /\ \E f \in AppFileStates : FsChange(f)
    /\ UNCHANGED <<idleVars, rendererLog, winVars>>

AppWindow ==
    /\ \/ AppReady
       \/ \E w \in windows : WindowClosed(w)
       \/ Activate
    /\ UNCHANGED <<reqVars, regLog, lastDispatch, listeners, subs, callCount,
                   emits, lastMsg, lastArg, webVars, uiVars, rendererLog>>

NextApp ==
    \/ AppCall
    \/ AppUseIPC
    \/ AppDispatch
    \/ \E id \in 1..MaxAppCalls : AppStatDone(id)
    \/ \E id \in 1..MaxAppCalls : AppReadDone(id)
    \/ \E id \in 1..MaxAppCalls : AppDialogDone(id)
    \/ AppFsChange
    \/ AppWindow

SpecApp == InitApp /\ [][NextApp]_vars

\* the Host's event loop runs every handler and every settled await, and the
\* file and dialog operations complete
FairSpecApp ==
    /\ SpecApp
    /\ WF_vars(AppDispatch)
    /\ \A id \in 1..MaxAppCalls :
          /\ WF_vars(AppStatDone(id))
          /\ WF_vars(AppReadDone(id))
          /\ WF_vars(AppDialogDone(id))

LifePing == RendererAlive /\ CallPing /\ UNCHANGED <<idleVars, rendererLog, winVars>>

LifeFault ==
    /\ \E k \in FaultKinds : HostFault(k)
    /\ UNCHANGED <<idleVars, rendererLog>>

\* the life of the Host process: start-up, windows, faults, and pings that
\* show the handlers at work
NextLife ==
    \/ AppWindow
    \/ LifeFault
    \/ LifePing
    \/ AppDispatch

SpecLife == InitApp /\ [][NextLife]_vars

\* the app is ready with its window open, in development or in production
InitWeb ==
    /\ InitIPC
    /\ appState = "ready"
    /\ platform = "linux"
    /\ mainWindow = 1
    /\ windows = {1}
    /\ created = 1
    /\ isDev \in BOOLEAN

WebNavigate ==
    /\ \E u \in UrlSamples : WillNavigate(u)
    /\ UNCHANGED <<calls, wire, started, responses, disk, regVars, subVars,
                   winVars, uiVars>>

WebOpen ==
    /\ \E u \in UrlSamples : WindowOpen(u)
    /\ UNCHANGED <<calls, wire, started, responses, disk, regVars, subVars,
                   winVars, uiVars>>

NextWeb ==
    \/ WebNavigate
    \/ WebOpen

SpecWeb == InitWeb /\ [][NextWeb]_vars

hookIdle == <<regVars, winVars, webVars, clock, notification, timers, arrivals, clears>>

hookSubs == <<listeners, subs, callCount, emits, lastMsg, lastArg>>

NextHooks ==
    \/ \E ch \in HookChannels :
          /\ HookInvoke(ch, "useIPC")
          /\ UNCHANGED <<hookIdle, hookSubs, version, homeMessage>>
    \/ UseAppVersionEffect /\ UNCHANGED <<hookIdle, hookSubs>>
    \/ HandlePingClick /\ UNCHANGED <<hookIdle, hookSubs>>
    \/ \E ch \in HookChannels, cb \in Callbacks :
          /\ UseIPCOn(ch, cb)
          /\ UNCHANGED <<hookIdle, subs, callCount, emits, lastMsg, lastArg,
                         version, homeMessage>>
    \/ \E ch \in HookChannels, cb \in Callbacks :
          /\ UseIPCOff(ch, cb)
          /\ UNCHANGED <<hookIdle, subs, callCount, emits, lastMsg, lastArg,
                         version, homeMessage>>
    \/ \E cb \in Callbacks :
          /\ OnNotification(cb)
          /\ UNCHANGED <<reqVars, hookIdle, version, homeMessage>>

SpecHooks == Init /\ [][NextHooks]_vars

toastIdle == <<reqVars, regVars, subVars, winVars, webVars, version, homeMessage>>

NextToast ==
    \/ NotificationArrives /\ UNCHANGED toastIdle
    \/ \E t \in timers : TimerFires(t) /\ UNCHANGED toastIdle
    \/ Tick /\ UNCHANGED toastIdle

SpecToast == Init /\ [][NextToast]_vars

dialogIdle == <<regVars, subVars, winVars, webVars, uiVars>>

NextDialog ==
    \/ \E o \in DialogPayloads : CallShowOpenDialog(o) /\ UNCHANGED dialogIdle
    \/ \E o \in DialogPayloads : DirectShowOpenDialog(o) /\ UNCHANGED dialogIdle
    \/ HostDispatch /\ UNCHANGED dialogIdle
    \/ \E id \in DOMAIN calls, r \in DialogResults :
            DialogDone(id, r) /\ UNCHANGED dialogIdle

SpecDialog == Init /\ [][NextDialog]_vars

----------------------------------------------------------------------------
(* Claims about processData *)

IsBridgeCall(i, chan) == calls[i].chan = chan /\ calls[i].via = "bridge"

HasResponse(i) == \E k \in DOMAIN responses : responses[k].id = i

OnWire(i) == \E k \in DOMAIN wire : wire[k] = i

\* C1: the bridge and the Host reject the same count values, so no
\* 'process-data' request that the bridge forwarded is rejected by the Host
\* for its count.
C1_SameRejectedCounts ==
    \A k \in DOMAIN responses :
        IsBridgeCall(responses[k].id, "process-data")
            => responses[k].err # "Invalid count field"

LongText(data) ==
    data.t = "object" /\ data.text.t = "string" /\ StrLen(data.text.s) > 1000

\* C2: a processData call whose text is longer than 1000 characters fails in
\* the bridge with the text validation error, whatever its count; no request
\* is sent and the Host handler never runs for it.
C2_LongTextStopsInBridge ==
    \A i \in DOMAIN calls :
        (IsBridgeCall(i, "process-data") /\ LongText(calls[i].arg))
            => /\ calls[i].berr
                    = "Invalid text field: must be a string with max 1000 characters"
               /\ calls[i].pc = "rejected"
               /\ ~OnWire(i)
               /\ ~HasResponse(i)
               /\ \A k \in DOMAIN started : started[k] # i

\* the scenario of the documentation: text 'a' x 10000 with count 1000
C2_Witness ==
    \E i \in DOMAIN calls :
        /\ IsBridgeCall(i, "process-data")
        /\ calls[i].arg.text = JSStr(Rep("a", 10000))
        /\ calls[i].arg.count = JSNum(2000)
        /\ calls[i].pc = "rejected"

----------------------------------------------------------------------------
(* Claims about readFile *)

HasTraversal(arg) == arg.t = "string" /\ IncludesDotDot(arg.s)

\* C3: a readFile call whose path contains '..' fails in the bridge with a
\* path validation error; no 'read-file' request is sent and no stat or read
\* is made for it.
C3_TraversalStopsInBridge ==
    \A i \in DOMAIN calls :
        (IsBridgeCall(i, "read-file") /\ HasTraversal(calls[i].arg))
            => /\ calls[i].berr \in {"Invalid file path", "Path traversal detected"}
               /\ calls[i].pc = "rejected"
               /\ calls[i].fsOps = 0
               /\ ~OnWire(i)
               /\ ~HasResponse(i)
               /\ \A k \in DOMAIN started : started[k] # i

C3_Witness ==
    \E i \in DOMAIN calls :
        /\ IsBridgeCall(i, "read-file")
        /\ calls[i].arg.s = Cat(Rep(".", 2), DiskPath)
        /\ calls[i].berr = "Path traversal detected"

BadHostPath(arg) ==
    arg.t = "string" /\ (IncludesDotDot(arg.s) \/ ~IsAbsolute(arg.s))

\* C4: the 'read-file' handler, given a path that contains '..' or is not
\* absolute, fails with 'Invalid file path' before any stat or read, whether
\* the request came through the bridge or not.
C4_HostRejectsBadPaths ==
    \A i \in DOMAIN calls :
        (calls[i].chan = "read-file" /\ BadHostPath(calls[i].arg))
            => /\ calls[i].fsOps = 0
               /\ calls[i].pc \in {"rejected", "wire", "done"}
               /\ calls[i].pc = "done"
                    => \E k \in DOMAIN responses :
                           /\ responses[k].id = i
                           /\ ~responses[k].ok
                           /\ responses[k].err = "Invalid file path"

\* the handler has answered a traversal path that never passed the bridge,
\* and a relative path that the bridge let through
C4_Witness ==
    /\ \E i \in DOMAIN calls :
        /\ calls[i].chan = "read-file" /\ calls[i].via = "direct"
        /\ HasTraversal(calls[i].arg)
        /\ calls[i].pc = "done"
    /\ \E i \in DOMAIN calls :
        /\ IsBridgeCall(i, "read-file")
        /\ ~IsAbsolute(calls[i].arg.s)
        /\ calls[i].pc = "done"

GenericFileFailures == {"Invalid file path", "Path is not a file", "File too large"}

\* C5: when the file read fails, the failure returned to the renderer carries
\* a generic message from a fixed set and no detail of the system error.
C5_OnlyGenericFailures ==
    \A k \in DOMAIN responses :
        (IsBridgeCall(responses[k].id, "read-file") /\ ~responses[k].ok
            /\ calls[responses[k].id].fsOps > 0)
            => /\ responses[k].err \in GenericFileFailures
               /\ responses[k].detail = <<>>

\* C6: requests sent on one channel are answered in the order they were sent.
C6_ResponsesInIssueOrder ==
    \A j, k \in DOMAIN responses :
        (/\ j < k
         /\ calls[responses[j].id].chan = calls[responses[k].id].chan
         /\ calls[responses[j].id].via = "bridge"
         /\ calls[responses[k].id].via = "bridge")
            => responses[j].id < responses[k].id

\* C6, amended: requests sent on one channel reach the Host handler in the
\* order they were sent, and a later request is answered before an earlier one
\* only while the earlier handler is suspended at one of its awaits.
C6_HandlersStartInIssueOrder ==
    /\ \A j, k \in DOMAIN started :
            (j < k /\ calls[started[j]].chan = calls[started[k]].chan)
                => started[j] < started[k]
    /\ \A a, b \in DOMAIN calls :
            (/\ a < b
             /\ calls[a].chan = calls[b].chan
             /\ calls[a].pc \notin {"rejected", "done"}
             /\ calls[b].pc = "done")
                => calls[a].pc \in {"stat", "read"}

\* a later readFile was answered before an earlier one
C6_Witness ==
    \E j, k \in DOMAIN responses :
        /\ j < k
        /\ responses[j].id > responses[k].id
        /\ IsBridgeCall(responses[j].id, "read-file")
        /\ IsBridgeCall(responses[k].id, "read-file")

----------------------------------------------------------------------------
(* Claims about the handler registration *)

LastOps(a, b) ==
    /\ Len(regLog) >= 2
    /\ regLog[Len(regLog) - 1].op = a
    /\ regLog[Len(regLog)].op = b

\* C7: a second registerIPCHandlers call with no unregister in between
\* completes without error and rebinds every channel to its own handler.
C7_SecondRegistrationReplaces ==
    LastOps("register", "register")
        => /\ ~regLog[Len(regLog)].threw
           /\ \A ch \in RegisteredChannels :
                invokeHandlers[ch] = [owner |-> "handlers", gen |-> RegOps("register")]

\* C8: after registerIPCHandlers followed by unregisterIPCHandlers no channel
\* of the registration is bound, and a dispatch to any of them fails with the
\* unknown-channel failure.
C8_UnregisterRemovesAll ==
    LastOps("register", "unregister")
        => /\ RemovedChannels = RegisteredChannels
           /\ \A ch \in RegisteredChannels : invokeHandlers[ch] = NoHandler
           /\ lastDispatch.chan \in RegisteredChannels
                => lastDispatch.result = "No handler registered"

C8_Witness ==
    /\ LastOps("register", "unregister")
    /\ ~regLog[Len(regLog) - 1].threw
    /\ lastDispatch.chan = "data:process"
    /\ lastDispatch.result = "No handler registered"

----------------------------------------------------------------------------
(* Claims about onNotification *)

\* C9: a second or later call of a detach function changes nothing: the
\* installed 'notification' listeners stay as the first call left them.
\* (The call cannot throw: removeListener is given a function and has no
\* failing path for one, so every Detach step completes.)
C9_SecondDetachIsNoOp ==
    [][\A i \in DOMAIN subs :
          (subs[i].detaches >= 1 /\ subs'[i].detaches = subs[i].detaches + 1)
              => listeners' = listeners]_vars

\* a subscription was detached twice while another listener was installed
C9_Witness ==
    \E i \in DOMAIN subs : subs[i].detaches >= 2 /\ Len(listeners) >= 1

\* C10: the first detach of a subscription removes its own wrapped listener
\* and no other; a valid notification then invokes the callback of every
\* subscription not yet detached exactly once, and of no detached one.
C10_DetachRemovesExactlyOwnListener ==
    [][/\ \A i \in DOMAIN subs :
            (subs[i].detaches = 0 /\ subs'[i].detaches = 1)
                => listeners' = SelectSeq(listeners, LAMBDA x : x.id # i)
       /\ (emits' = emits + 1 /\ lastMsg'.t = "string")
            => \A i \in DOMAIN subs :
                  callCount'[i] = callCount[i]
                                    + (IF subs[i].detaches = 0 THEN 1 ELSE 0)]_vars

\* two subscriptions share a callback, the older one is detached, and a
\* notification since then reached the newer one only
C10_Witness ==
    \E i, j \in DOMAIN subs :
        /\ i < j
        /\ subs[i].cb = subs[j].cb
        /\ subs[i].detaches >= 1
        /\ subs[j].detaches = 0
        /\ callCount[j] > callCount[i]

\* the subscriptions whose detach function has not been called yet
LiveSubs == {i \in DOMAIN subs : subs[i].detaches = 0}

\* C11: after any sequence of subscribe and detach calls, the listeners
\* installed on 'notification' are exactly one per subscription that has not
\* been detached yet: none is left behind by a detach, none is removed twice.
C11_ListenersMatchLiveSubscriptions ==
    /\ Len(listeners) = Cardinality(LiveSubs)
    /\ \A i \in DOMAIN subs : Installed(i) = (IF i \in LiveSubs THEN 1 ELSE 0)

\* one subscription detached twice, a later one with the same callback still
\* installed
C11_Witness ==
    \E i, j \in DOMAIN subs :
        /\ i < j
        /\ subs[i].cb = subs[j].cb
        /\ subs[i].detaches >= 2
        /\ j \in LiveSubs
        /\ Len(listeners) = 1

\* C12: a message on 'notification' reaches the callback of every live
\* subscription, as that very message, exactly when it is a string; any other
\* message is dropped with a logged warning, and in both cases the
\* subscriptions stay installed.
C12_OnlyStringsReachCallbacks ==
    [][(emits' = emits + 1)
          => /\ listeners' = listeners
             /\ subs' = subs
             /\ \A i \in LiveSubs :
                   IF lastMsg'.t = "string"
                   THEN callCount'[i] = callCount[i] + 1 /\ lastArg'[i] = lastMsg'
                   ELSE callCount'[i] = callCount[i] /\ lastArg'[i] = lastArg[i]
             /\ IF lastMsg'.t = "string"
                THEN rendererLog' = rendererLog
                ELSE LiveSubs # {} => rendererLog' > rendererLog]_vars

\* a subscription that received a string and then had a non-string dropped
C12_Witness ==
    \E i \in LiveSubs :
        /\ callCount[i] = 1
        /\ lastArg[i].t = "string"
        /\ emits = 2
        /\ lastMsg.t # "string"
        /\ rendererLog >= 1

----------------------------------------------------------------------------
(* Claims about the request surface *)

\* the step in which the Host handler of request id runs to its end or to its
\* first await
Handled(id, chan) ==
    /\ id \in DOMAIN calls
    /\ calls[id].chan = chan
    /\ calls[id].pc = "wire"
    /\ calls'[id].pc # "wire"

\* C13: whatever state the app is in, the 'ping' handler answers 'pong' and
\* leaves the Host's state alone: the handler map, the main-window reference,
\* the open windows and the event subscriptions are the same before and after.
C13_PingAnswersPongAndChangesNothing ==
    [][\A id \in 1..MaxAppCalls :
          Handled(id, "ping")
              => /\ responses' = Append(responses, Success(id, Pong, 0))
                 /\ calls'[id].pc = "done"
                 /\ UNCHANGED <<invokeHandlers, mainWindow, windows, appState,
                                listeners, subs>>]_vars

\* a ping answered while the file dialog of an earlier request is open
C13_Witness ==
    \E k \in DOMAIN responses, j \in DOMAIN calls :
        /\ calls[responses[k].id].chan = "ping"
        /\ responses[k].ok
        /\ responses[k].processed = Pong
        /\ calls[j].pc = "dialog"
        /\ j < responses[k].id
\* a payload inside the documented range: text of at most 1000 characters and
\* an integer count from 0 to 100
ValidData(d) ==
    /\ d.t = "object"
    /\ d.text.t = "string"
    /\ StrLen(d.text.s) <= 1000
    /\ d.count.t = "number"
    /\ d.count.cls = "finite"
    /\ d.count.h % 2 = 0
    /\ d.count.h >= 0
    /\ d.count.h <= 200

\* k copies of s written out run by run, for a string s that is empty, a
\* single run, or begins and ends with different characters
Copies(s, k) ==
    IF k = 0 \/ s = <<>> THEN <<>>
    ELSE IF Len(s) = 1 THEN <<[c |-> s[1].c, n |-> s[1].n * k]>>
    ELSE [i \in 1..(Len(s) * k) |-> s[((i - 1) % Len(s)) + 1]]

\* C14: for a text of at most 1000 characters and an integer count from 0 to
\* 100, processData is forwarded and answered with processed = the text
\* written count times (the empty string for count 0) and a numeric timestamp.
C14_ProcessDataRepeatsText ==
    \A i \in DOMAIN calls :
        (IsBridgeCall(i, "process-data") /\ ValidData(calls[i].arg))
            => /\ calls[i].berr = ""
               /\ \A k \in DOMAIN responses :
                     responses[k].id = i
                         => /\ responses[k].ok
                            /\ responses[k].processed =
                                   Copies(calls[i].arg.text.s, calls[i].arg.count.h \div 2)
                            /\ responses[k].stamp.t = "number"
                            /\ responses[k].stamp.cls = "finite"

\* processData({text: 'Hello', count: 3}) answered with 'HelloHelloHello'
C14_Witness ==
    LET r(c, n) == [c |-> c, n |-> n]
    IN \E k \in DOMAIN responses :
          /\ IsBridgeCall(responses[k].id, "process-data")
          /\ calls[responses[k].id].arg.count = JSNum(6)
          /\ responses[k].ok
          /\ responses[k].processed =
                <<r("H", 1), r("e", 1), r("l", 2), r("o", 1),
                  r("H", 1), r("e", 1), r("l", 2), r("o", 1),
                  r("H", 1), r("e", 1), r("l", 2), r("o", 1)>>
          /\ responses[k].stamp.t = "number"

\* C15: every channel on which a method of the published object forwards a
\* request has a handler bound on the Host, so no call made through the
\* published object ends in "No handler registered".
C15_EveryBridgeChannelIsBound ==
    /\ \A i \in DOMAIN calls :
          calls[i].via = "bridge" => invokeHandlers[calls[i].chan] # NoHandler
    /\ \A k \in DOMAIN responses :
          calls[responses[k].id].via = "bridge" => responses[k].err # NoHandlerError

\* a getAppVersion call and a showOpenDialog call were both answered
C15_Witness ==
    \E k, m \in DOMAIN responses :
        /\ calls[responses[k].id].chan = "get-app-version"
        /\ responses[k].ok
        /\ calls[responses[m].id].chan = "show-open-dialog"
        /\ calls[responses[m].id].via = "bridge"

\* the values of the shared channel table (shared/constants/ipc.ts)
IPC_CHANNELS ==
    {"app:ping", "app:getVersion", "app:quit", "data:process", "data:save",
     "data:load", "window:minimize", "window:maximize", "window:close",
     "notification:show"}

\* the channels with a handler bound on the Host
BoundChannels == {ch \in Channels : invokeHandlers[ch] # NoHandler}

\* C16: every channel the bridge sends a request on and every channel the
\* Host binds a handler to is a value of the shared table IPC_CHANNELS.
C16_ChannelsComeFromSharedTable ==
    /\ \A i \in DOMAIN calls :
          (calls[i].via = "bridge" /\ calls[i].berr = "") => calls[i].chan \in IPC_CHANNELS
    /\ BoundChannels \subseteq IPC_CHANNELS

\* the channels the bridge listens on for pushed events
EventChannels == {NotificationChannel}

\* C17: no channel with a request handler bound on the Host is a channel used
\* for pushed events, whatever registrations and removals have been made.
C17_HandlerAndEventChannelsDisjoint ==
    BoundChannels \cap EventChannels = {}

\* the handlers of index.ts and of registerIPCHandlers are all bound
C17_Witness ==
    /\ BoundChannels = MainChannels \cup RegisteredChannels
    /\ regLog # <<>>
    /\ ~regLog[Len(regLog)].threw

C19_NeverReturnsOversizedFile ==
    \A k \in DOMAIN responses :
        (calls[responses[k].id].chan = "read-file" /\ responses[k].ok)
            => responses[k].size <= MAX_FILE_SIZE

\* the request was forwarded by the bridge
Forwarded(id) == id \in DOMAIN calls /\ calls[id].via = "bridge" /\ calls[id].berr = ""

Answers(id) == Cardinality({k \in DOMAIN responses : responses[k].id = id})

----------------------------------------------------------------------------
(* Claims about the Host process, its windows and its guards *)

\* the log line of a fault of kind k
FaultEntry(k) == [msg |-> FaultLog(k), detail |-> <<>>]

\* C21: a fault that reaches the top of the Host process is logged and nothing
\* else happens: the process keeps running, its windows and handlers stay as
\* they were, and nothing is sent to the renderer, neither a response nor a
\* notification.
C21_FaultIsLoggedAndProcessGoesOn ==
    [][(\E k \in FaultKinds : FaultEntry(k) \in hostLog' /\ FaultEntry(k) \notin hostLog)
          => /\ appState' = appState
             /\ invokeHandlers' = invokeHandlers
             /\ \A ch \in MainChannels : invokeHandlers'[ch] # NoHandler
             /\ UNCHANGED <<mainWindow, windows>>
             /\ UNCHANGED <<calls, wire, responses, emits, listeners>>]_vars

\* both kinds of fault were logged, the app still runs and a ping was answered
C21_Witness ==
    /\ \A k \in FaultKinds : FaultEntry(k) \in hostLog
    /\ appState = "ready"
    /\ [msg |-> PingLog, detail |-> <<>>] \in hostLog
    /\ \E k \in DOMAIN responses : responses[k].ok /\ responses[k].processed = Pong

\* C22: mainWindow is non-null exactly when a window created by createWindow
\* is open, it then refers to that window, and at most one window is open at
\* any time.
C22_MainWindowTracksTheOpenWindow ==
    /\ (mainWindow # 0) <=> (windows # {})
    /\ mainWindow # 0 => windows = {mainWindow}
    /\ Cardinality(windows) <= 1

\* on macOS the first window was closed and a second one created by activate
C22_Witness ==
    /\ platform = "darwin"
    /\ created = 2
    /\ mainWindow = 2
    /\ windows = {2}

\* C23: each channel of the Host keeps the one handler it was given when
\* main/index.ts was loaded: no step of the process, and in particular no
\* creation of a window, binds a channel again.
C23_HandlersAreBoundOnceAtStartUp ==
    [][\A ch \in MainChannels :
          /\ invokeHandlers[ch] = MainHandler
          /\ invokeHandlers'[ch] = invokeHandlers[ch]]_vars

\* a window was created again after a close, and a ping sent since start-up
\* was answered by the handler bound at start-up
C23_Witness ==
    /\ created = 2
    /\ windows = {2}
    /\ invokeHandlers["ping"] = MainHandler
    /\ \E k \in DOMAIN responses : calls[responses[k].id].chan = "ping" /\ responses[k].ok

C25_NewWindowsDeniedHttpsGoesToBrowser ==
    \A k \in DOMAIN webEvents :
        webEvents[k].kind = "open"
            => /\ webEvents[k].prevented
               /\ webEvents[k].external <=> webEvents[k].url.scheme = "https"

\* an https URL was handed to the browser and a plain http URL was not
C25_Witness ==
    \E j, k \in DOMAIN webEvents :
        /\ webEvents[j].kind = "open"
        /\ webEvents[j].external
        /\ webEvents[k].kind = "open"
        /\ webEvents[k].url.scheme = "http"
        /\ ~webEvents[k].external
        /\ webEvents[k].prevented

\* C26: whatever payload arrives on 'show-open-dialog', the properties handed
\* to the native dialog are all among openFile, openDirectory and
\* multiSelections, and they are exactly ['openFile'] when the payload has no
\* properties array.
C26_DialogGetsOnlyKnownProperties ==
    \A i \in DOMAIN calls :
        (calls[i].chan = "show-open-dialog" /\ calls[i].native.win # 0)
            => /\ \A k \in DOMAIN calls[i].native.properties :
                     calls[i].native.properties[k]
                         \in {"openFile", "openDirectory", "multiSelections"}
               /\ calls[i].arg.props.kind # "array"
                     => calls[i].native.properties = <<"openFile">>

\* a payload whose properties is a string opened the dialog with ['openFile'],
\* and one that asked for createDirectory opened it with ['openDirectory']
C26_Witness ==
    \E i, j \in DOMAIN calls :
        /\ calls[i].via = "direct"
        /\ calls[i].arg.props.kind = "string"
        /\ calls[i].native.win # 0
        /\ calls[i].native.properties = <<"openFile">>
        /\ calls[j].arg.props = PropsArray(<<"openDirectory", "createDirectory">>)
        /\ calls[j].native.win # 0
        /\ calls[j].native.properties = <<"openDirectory">>

\* C27: when 'show-open-dialog' is handled while mainWindow is null the call
\* fails with 'No main window available' and no native dialog is opened.
C27_NoWindowNoDialog ==
    [][\A id \in 1..MaxAppCalls :
          (Handled(id, "show-open-dialog") /\ mainWindow = 0)
              => /\ responses' = Append(responses,
                                        Failure(id, "No main window available", <<>>))
                 /\ calls'[id].pc = "done"
                 /\ calls'[id].native = NoNative]_vars

\* on macOS a showOpenDialog request was still on the wire when its window
\* was closed, and was then refused
C27_Witness ==
    \E k \in DOMAIN responses :
        /\ calls[responses[k].id].chan = "show-open-dialog"
        /\ responses[k].err = "No main window available"
        /\ calls[responses[k].id].native = NoNative
        /\ platform = "darwin"
        /\ windows = {}

\* C28: on length, the bridge's readFile forwards every path of at most 4096
\* characters and refuses every longer one: of the paths without a NUL and
\* without '..', exactly those of 1 to 4096 characters reach the Host.
C28_BridgeAcceptsPathsUpTo4096 ==
    \A i \in DOMAIN calls :
        (IsBridgeCall(i, "read-file") /\ calls[i].arg.t = "string"
            /\ ~IncludesNul(calls[i].arg.s) /\ ~IncludesDotDot(calls[i].arg.s))
            => (calls[i].berr = ""
                    <=> (StrLen(calls[i].arg.s) >= 1 /\ StrLen(calls[i].arg.s) <= 4096))

C30_NotificationKeepsItsThreeSeconds ==
    \A k \in DOMAIN clears :
        clears[k].cleared # 0
            => (clears[k].left = 0 \/ clears[k].owner = clears[k].cleared)

====
